---------------------------- MODULE Spec2Model ----------------------------
(***************************************************************************)
(* Model of the virtio-gpu display/cursor control path                     *)
(* (kernel/comps/virtio/src/device/gpu): GPUDevice::init, the interrupt    *)
(* callbacks, and the three synchronous transactions                       *)
(* request_display_info, request_cursor_update and request_cursor_move,    *)
(* each run by a kernel thread on its own processor against an emulated    *)
(* device that completes transfers at its own pace.                        *)
(*                                                                         *)
(* Every call the code unwraps (.unwrap(), .expect()) either succeeds or   *)
(* returns Err, in which case the kernel panics and nothing runs after.    *)
(* The device reads and writes a buffer through the slice submitted for    *)
(* it: REQ_SIZE bytes of the request region, RESP_SIZE bytes of the        *)
(* response region.                                                        *)
(***************************************************************************)
EXTENDS Integers, Sequences, FiniteSets, TLC

(***************************************************************************)
(* Bounds of the model.                                                    *)
(***************************************************************************)
\* Largest offset of the cursor coordinates a caller passes.
MaxVal == 1
\* Number of low bits of the offered feature word that are enumerated.
FeatureBits == 7

(***************************************************************************)
(* Program constants.                                                      *)
(***************************************************************************)
\* device.rs:29-30: the lengths of the request and response slices.
REQ_SIZE == 16
RESP_SIZE == 1

\* Opcodes of VirtioGPUCtrlType (header.rs, the virtio-gpu wire protocol).
VIRTIO_GPU_CMD_GET_DISPLAY_INFO == 256
VIRTIO_GPU_CMD_UPDATE_CURSOR == 768
VIRTIO_GPU_CMD_MOVE_CURSOR == 769
VIRTIO_GPU_RESP_OK_NODATA == 4352
VIRTIO_GPU_RESP_OK_DISPLAY_INFO == 4353
VIRTIO_GPU_RESP_ERR_UNSPEC == 4608

\* Byte sizes of the wire structs.  A u32 field takes 4 bytes.
U32_SIZE == 4
\* VirtioGPUCtrlHdr: type, flags (u32), fence_id (u64), ctx_id (u32),
\* ring_idx and padding (4 bytes).
CTRL_HDR_SIZE == 24
\* VirtioGPUCursorPos (cursor.rs:6-11): four u32 fields.
CURSOR_POS_SIZE == 4 * U32_SIZE
\* VirtioGPUUpdateCursor (cursor.rs:15-22): hdr, pos and four u32 fields.
UPDATE_CURSOR_SIZE == CTRL_HDR_SIZE + CURSOR_POS_SIZE + 4 * U32_SIZE
\* VirtioGPURespUpdateCursor (cursor.rs:48-50): the header only.
RESP_UPDATE_CURSOR_SIZE == CTRL_HDR_SIZE
\* VirtioGPURespDisplayInfo: the header and the geometry of 16 scanouts
\* of 24 bytes each.
DISPLAY_INFO_PAYLOAD_SIZE == 384
RESP_DISPLAY_INFO_SIZE == CTRL_HDR_SIZE + DISPLAY_INFO_PAYLOAD_SIZE

(***************************************************************************)
(* Sets of values.                                                         *)
(***************************************************************************)
Threads == {"t1", "t2"}
Queues == {"control", "cursor"}
Regions == {"controlq_request", "controlq_response",
            "cursorq_request", "cursorq_response"}
Ops == {"display_info", "cursor_update", "cursor_move"}
Vals == 0..MaxVal
NoThread == "none"

(***************************************************************************)
(* Wire message types.                                                     *)
(***************************************************************************)
\* VirtioGPUCtrlHdr::from_type / ..VirtioGPUCtrlHdr::default(): the opcode
\* is set and every other header field is zero.
CtrlHdr(ctrl_type) ==
    [ctrl_type |-> ctrl_type, flags |-> 0, fence_id |-> 0, ctx_id |-> 0]

\* VirtioGPUCursorPos::default()
DefaultCursorPos == [scanout_id |-> 0, x |-> 0, y |-> 0, padding |-> 0]

\* The cursor positions a caller passes: scanout 0, any x, y = x + 1.
CursorPositions ==
    {[scanout_id |-> 0, x |-> v, y |-> v + 1, padding |-> 0] : v \in Vals}

\* update_cursor with the resource handle and the padding exchanged.
update_cursor_swapped(pos, resource_id, padding) ==
    [hdr |-> CtrlHdr(VIRTIO_GPU_CMD_UPDATE_CURSOR),
     pos |-> pos, resource_id |-> padding,
     hot_x |-> 0, hot_y |-> 0, padding |-> resource_id]

\* VirtioGPUUpdateCursor::update_cursor
update_cursor(pos, resource_id, padding) ==
    [hdr |-> CtrlHdr(VIRTIO_GPU_CMD_UPDATE_CURSOR),
     pos |-> pos, resource_id |-> resource_id,
     hot_x |-> 0, hot_y |-> 0, padding |-> padding]

\* VirtioGPUUpdateCursor::move_cursor
move_cursor(hot_x, hot_y, padding) ==
    [hdr |-> CtrlHdr(VIRTIO_GPU_CMD_MOVE_CURSOR),
     pos |-> DefaultCursorPos, resource_id |-> 0,
     hot_x |-> hot_x, hot_y |-> hot_y, padding |-> padding]

\* The request of request_display_info: a header with the opcode set.
DisplayInfoRequest == [hdr |-> CtrlHdr(VIRTIO_GPU_CMD_GET_DISPLAY_INFO)]

\* VirtioGPURespUpdateCursor::new: the placeholder of the cursor operations.
RespUpdateCursorNew == [hdr |-> CtrlHdr(VIRTIO_GPU_RESP_OK_NODATA)]

\* VirtioGPURespDisplayInfo::default(): header and geometry all zero.
RespDisplayInfoDefault == [hdr |-> CtrlHdr(0), payload |-> 0]

(***************************************************************************)
(* The three operations: queue, regions, request, placeholder, expected    *)
(* opcode and message sizes.                                               *)
(***************************************************************************)
\* QueueOf with the cursor operations run on the control queue.
QueueOfOneQueue(op) == "control"

\* The queue (and its lock) an operation runs its transaction on.
QueueOf(op) == IF op = "display_info" THEN "control" ELSE "cursor"

\* The placeholder written to the response region before submission.
Placeholder(op) ==
    IF op = "display_info" THEN RespDisplayInfoDefault ELSE RespUpdateCursorNew

\* The opcode the operation compares the response header with.
ExpectedOpcode(op) ==
    IF op = "display_info" THEN VIRTIO_GPU_RESP_OK_DISPLAY_INFO
    ELSE VIRTIO_GPU_RESP_OK_NODATA

\* size_of the request type written by write_val.
RequestSize(op) ==
    IF op = "display_info" THEN CTRL_HDR_SIZE ELSE UPDATE_CURSOR_SIZE

\* size_of the response type written as placeholder and read by read_val.
ResponseSize(op) ==
    IF op = "display_info" THEN RESP_DISPLAY_INFO_SIZE
    ELSE RESP_UPDATE_CURSOR_SIZE

\* The requests a call of op can build from its arguments.
RequestsOf(op) ==
    CASE op = "display_info" -> {DisplayInfoRequest}
      [] op = "cursor_update" ->
           {update_cursor(pos, 5, 0) : pos \in CursorPositions}
      [] op = "cursor_move" ->
           {move_cursor(10, 20, 0)}

(***************************************************************************)
(* What the device sees of a buffer of len bytes.                          *)
(***************************************************************************)
\* The fields of a request in wire order, each <<name, size, value>>.
HdrImage(h) ==
    << <<"ctrl_type", U32_SIZE, h.ctrl_type>>, <<"flags", U32_SIZE, h.flags>>,
       <<"fence_id", 2 * U32_SIZE, h.fence_id>>,
       <<"ctx_id", U32_SIZE, h.ctx_id>>, <<"ring_idx", U32_SIZE, 0>> >>

ReqImage(m) ==
    IF "pos" \in DOMAIN m
    THEN HdrImage(m.hdr) \o
         << <<"pos.scanout_id", U32_SIZE, m.pos.scanout_id>>,
            <<"pos.x", U32_SIZE, m.pos.x>>, <<"pos.y", U32_SIZE, m.pos.y>>,
            <<"pos.padding", U32_SIZE, m.pos.padding>>,
            <<"resource_id", U32_SIZE, m.resource_id>>,
            <<"hot_x", U32_SIZE, m.hot_x>>, <<"hot_y", U32_SIZE, m.hot_y>>,
            <<"padding", U32_SIZE, m.padding>> >>
    ELSE HdrImage(m.hdr)

RECURSIVE EndOffset(_, _)
EndOffset(img, i) == IF i = 0 THEN 0 ELSE EndOffset(img, i - 1) + img[i][2]

\* The fields of request m that lie within the first len bytes: what the
\* device can read through a descriptor of that length.
DeviceReads(m, len) ==
    LET img == ReqImage(m)
        n == Cardinality({i \in 1..Len(img) : EndOffset(img, i) <= len})
    IN [i \in 1..n |-> <<img[i][1], img[i][3]>>]

RECURSIVE Pow256(_)
Pow256(k) == IF k = 0 THEN 1 ELSE 256 * Pow256(k - 1)

\* Number of bytes of a field at [off, off + size) inside the first len bytes.
Covered(off, size, len) ==
    IF len <= off THEN 0 ELSE IF len >= off + size THEN size ELSE len - off

\* A little-endian field of which the device overwrote the first k bytes.
MergeLE(old, new, k) ==
    (old \div Pow256(k)) * Pow256(k) + (new % Pow256(k))

\* The header after the device wrote the first len bytes of header new.
HdrWritten(old, new, len) ==
    [ctrl_type |-> MergeLE(old.ctrl_type, new.ctrl_type,
                           Covered(0, U32_SIZE, len)),
     flags |-> MergeLE(old.flags, new.flags, Covered(4, U32_SIZE, len)),
     fence_id |-> MergeLE(old.fence_id, new.fence_id,
                          Covered(8, 2 * U32_SIZE, len)),
     ctx_id |-> MergeLE(old.ctx_id, new.ctx_id, Covered(16, U32_SIZE, len))]

\* Size of the response struct the device answers with.
DeviceResponseSize(r) ==
    IF r.hdr.ctrl_type = VIRTIO_GPU_RESP_OK_DISPLAY_INFO
    THEN RESP_DISPLAY_INFO_SIZE ELSE CTRL_HDR_SIZE

\* The response region after the device wrote response r through a
\* descriptor of len bytes: it writes at most len bytes; the geometry
\* payload counts as written only when all of it fits.
DeviceWrites(old, r, len) ==
    LET n == IF DeviceResponseSize(r) < len THEN DeviceResponseSize(r) ELSE len
        hdr == HdrWritten(old.hdr, r.hdr, n)
    IN IF "payload" \in DOMAIN old
       THEN [hdr |-> hdr,
             payload |-> IF n >= RESP_DISPLAY_INFO_SIZE
                            /\ "payload" \in DOMAIN r
                         THEN r.payload ELSE old.payload]
       ELSE [hdr |-> hdr]

\* The responses the device may answer with: the two success responses
\* (the display info with one fixed geometry) and an error response.
DeviceResponses ==
    {[hdr |-> CtrlHdr(VIRTIO_GPU_RESP_OK_NODATA)],
     [hdr |-> CtrlHdr(VIRTIO_GPU_RESP_ERR_UNSPEC)],
     [hdr |-> CtrlHdr(VIRTIO_GPU_RESP_OK_DISPLAY_INFO), payload |-> 1]}

(***************************************************************************)
(* Feature negotiation.                                                    *)
(***************************************************************************)
\* Bit positions of the GPUFeatures flags (config.rs).
VIRTIO_GPU_F_VIRGL == 0
VIRTIO_GPU_F_EDID == 1
VIRTIO_GPU_F_RESOURCE_UUID == 2
VIRTIO_GPU_F_RESOURCE_BLOB == 3
VIRTIO_GPU_F_CONTEXT_INIT == 4
GPUFeaturesAll ==
    {VIRTIO_GPU_F_VIRGL, VIRTIO_GPU_F_EDID, VIRTIO_GPU_F_RESOURCE_UUID,
     VIRTIO_GPU_F_RESOURCE_BLOB, VIRTIO_GPU_F_CONTEXT_INIT}

RECURSIVE Pow2(_)
Pow2(k) == IF k = 0 THEN 1 ELSE 2 * Pow2(k - 1)

\* The positions of the bits set in n, and the number with the bits of S set.
BitsOf(n) == {i \in 0..FeatureBits : (n \div Pow2(i)) % 2 = 1}
RECURSIVE FromBits(_)
FromBits(S) ==
    IF S = {} THEN 0
    ELSE LET i == CHOOSE j \in S : TRUE IN Pow2(i) + FromBits(S \ {i})

\* negotiate_features that leaves the CONTEXT_INIT capability on.
negotiate_features_keep_context_init(features) ==
    FromBits((BitsOf(features) \cap GPUFeaturesAll) \ {VIRTIO_GPU_F_VIRGL})

\* GPUDevice::negotiate_features (line 47-54): from_bits_truncate keeps the
\* bits of the known flags, the two removes clear VIRGL and CONTEXT_INIT.
negotiate_features(features) ==
    FromBits((BitsOf(features) \cap GPUFeaturesAll)
               \ {VIRTIO_GPU_F_VIRGL, VIRTIO_GPU_F_CONTEXT_INIT})

\* The feature words offered.
OfferedFeatures == 0..(Pow2(FeatureBits) - 1)

\* The u32 values passed to the cursor request constructors: the small ones
\* and a large one.
LargeU32 == Pow2(30)
U32Samples == Vals \cup {LargeU32}
CursorPosSamples ==
    [scanout_id : U32Samples, x : U32Samples, y : U32Samples,
     padding : U32Samples]

(***************************************************************************)
(* State.                                                                  *)
(***************************************************************************)
VARIABLES
    initPc,         \* the statement of GPUDevice::init to run next
    queues,         \* the virtqueues constructed so far
    segments,       \* the regions whose page is allocated
    regions,        \* the regions mapped as DMA streams
    device,         \* TRUE once the GPUDevice value is constructed
    cfgCallback,    \* the configuration-change callback is registered
    queueCallback,  \* the queue-completion callback is registered
    finishInit,     \* number of times transport.finish_init() was called
    initResult,     \* "running", "Ok" or "Err": what init returned
    initFault,      \* the step of init whose callee reported a failure
    panicked,       \* "none", or the message of the kernel panic
    reqRegion,      \* per queue, the content of its request region
    respRegion,     \* per queue, the content of its response region
    lock,           \* per queue, the thread holding its SpinLock
    avail,          \* per queue, transfers submitted, not yet completed
    used,           \* per queue, transfers completed, not yet popped
    pc,             \* per thread, the statement of its operation to run next
    op,             \* per thread, the operation it runs
    req,            \* per thread, the request message it built
    resp,           \* per thread, the response it read back
    result,         \* per thread, "none", "Ok" or "Err"
    irqOff,         \* per thread's processor, local interrupts are disabled
    handler,        \* per thread's processor, the interrupt handler running
    qerr,           \* per thread, the queue primitive that reported an error
    popped,         \* per thread, the transfer its pop_used dequeued
    devSaw,         \* per thread, what the device read as its request
    devAnswer,      \* per thread, what the device answered to its transfer
    pureCall,       \* the call of a function of no state, with its arguments
    pureRet         \* the value that call returned

initVars == <<initPc, queues, segments, regions, device, cfgCallback,
              queueCallback, finishInit, initResult, initFault>>
dmaVars == <<reqRegion, respRegion>>
queueVars == <<lock, avail, used>>
threadVars == <<pc, op, req, resp, result, qerr, popped>>
cpuVars == <<irqOff, handler>>
devVars == <<devSaw, devAnswer>>
pureVars == <<pureCall, pureRet>>
vars == <<initVars, panicked, dmaVars, queueVars, threadVars, cpuVars,
          devVars, pureVars>>

NoValue == "none"
\* No message: the value of a message variable that holds none.
NoMsg == [none |-> TRUE]
\* The device completed the transfer without writing a response.
NoWrite == [wrote |-> FALSE]

\* A zeroed page read as the request or response type of the queue.
ZeroRequest(q) ==
    IF q = "control" THEN [hdr |-> CtrlHdr(0)]
    ELSE [hdr |-> CtrlHdr(0), pos |-> DefaultCursorPos, resource_id |-> 0,
          hot_x |-> 0, hot_y |-> 0, padding |-> 0]
ZeroResponse(q) ==
    IF q = "control" THEN [hdr |-> CtrlHdr(0), payload |-> 0]
    ELSE [hdr |-> CtrlHdr(0)]

\* InitOrder with finish_init signalled before the queue callback is
\* registered.
InitOrderFinishEarly ==
    << "read_config", "new_control_queue", "new_cursor_queue",
       "alloc_controlq_request", "map_controlq_request",
       "alloc_controlq_response", "map_controlq_response",
       "alloc_cursorq_request", "map_cursorq_request",
       "alloc_cursorq_response", "map_cursorq_response",
       "new_device", "register_cfg_callback", "finish_init",
       "register_queue_callback", "return_ok", "returned" >>

\* The statements of GPUDevice::init in program order.
InitOrder ==
    << "read_config", "new_control_queue", "new_cursor_queue",
       "alloc_controlq_request", "map_controlq_request",
       "alloc_controlq_response", "map_controlq_response",
       "alloc_cursorq_request", "map_cursorq_request",
       "alloc_cursorq_response", "map_cursorq_response",
       "new_device", "register_cfg_callback", "register_queue_callback",
       "finish_init", "return_ok", "returned" >>

InitIndex(step) == CHOOSE i \in 1..Len(InitOrder) : InitOrder[i] = step
InitNextStep(step) == InitOrder[InitIndex(step) + 1]

InitDevice ==
    /\ initPc = InitOrder[1]
    /\ queues = {}
    /\ segments = {}
    /\ regions = {}
    /\ device = FALSE
    /\ cfgCallback = FALSE
    /\ queueCallback = FALSE
    /\ finishInit = 0
    /\ initResult = "running"
    /\ initFault = NoValue
    /\ panicked = NoValue
    /\ reqRegion = [q \in Queues |-> ZeroRequest(q)]
    /\ respRegion = [q \in Queues |-> ZeroResponse(q)]
    /\ lock = [q \in Queues |-> NoThread]
    /\ avail = [q \in Queues |-> <<>>]
    /\ used = [q \in Queues |-> <<>>]
    /\ pc = [t \in Threads |-> "idle"]
    /\ op = [t \in Threads |-> NoValue]
    /\ req = [t \in Threads |-> NoMsg]
    /\ resp = [t \in Threads |-> NoMsg]
    /\ result = [t \in Threads |-> NoValue]
    /\ irqOff = [t \in Threads |-> FALSE]
    /\ handler = [t \in Threads |-> NoValue]
    /\ qerr = [t \in Threads |-> NoValue]
    /\ popped = [t \in Threads |-> NoValue]
    /\ devSaw = [t \in Threads |-> <<>>]
    /\ devAnswer = [t \in Threads |-> NoMsg]

Init ==
    /\ InitDevice
    /\ pureCall = NoMsg
    /\ pureRet = NoMsg

\* A kernel panic halts the machine: nothing runs after it.
Running == panicked = NoValue

(***************************************************************************)
(* GPUDevice::init                                                         *)
(***************************************************************************)
notInit == <<dmaVars, queueVars, threadVars, cpuVars, devVars, pureVars>>

\* .unwrap() / .expect() on an Err: the kernel panics.
Unwrap(ok, step, msg) ==
    IF ok THEN panicked' = panicked /\ initFault' = initFault
    ELSE panicked' = msg /\ initFault' = step

\* line 57-58: new_manager, read_config
InitReadConfig ==
    /\ Running /\ initPc = "read_config"
    /\ initPc' = InitNextStep(initPc)
    /\ UNCHANGED <<queues, segments, regions, device, cfgCallback,
                   queueCallback, finishInit, initResult, initFault,
                   panicked, notInit>>

\* line 63-66: VirtQueue::new(index, QUEUE_SIZE, transport).unwrap()
InitNewQueue(q) ==
    /\ Running /\ initPc = "new_" \o q \o "_queue"
    /\ \E ok \in BOOLEAN :
         /\ Unwrap(ok, initPc, "unwrap: VirtQueue::new")
         /\ queues' = IF ok THEN queues \cup {q} ELSE queues
         /\ initPc' = IF ok THEN InitNextStep(initPc) ELSE initPc
    /\ UNCHANGED <<segments, regions, device, cfgCallback, queueCallback,
                   finishInit, initResult, notInit>>

\* line 70, 74, 78, 82: FrameAllocOptions::new().alloc_segment(1).unwrap()
InitAllocSegment(r) ==
    /\ Running /\ initPc = "alloc_" \o r
    /\ \E ok \in BOOLEAN :
         /\ Unwrap(ok, initPc, "unwrap: alloc_segment")
         /\ segments' = IF ok THEN segments \cup {r} ELSE segments
         /\ initPc' = IF ok THEN InitNextStep(initPc) ELSE initPc
    /\ UNCHANGED <<queues, regions, device, cfgCallback, queueCallback,
                   finishInit, initResult, notInit>>

\* line 71, 75, 79, 83: DmaStream::map(segment, Bidirectional, false).unwrap()
InitMapRegion(r) ==
    /\ Running /\ initPc = "map_" \o r
    /\ r \in segments
    /\ \E ok \in BOOLEAN :
         /\ Unwrap(ok, initPc, "unwrap: DmaStream::map")
         /\ regions' = IF ok THEN regions \cup {r} ELSE regions
         /\ initPc' = IF ok THEN InitNextStep(initPc) ELSE initPc
    /\ UNCHANGED <<queues, segments, device, cfgCallback, queueCallback,
                   finishInit, initResult, notInit>>

\* line 87-108: Arc::new(Self { .. }) and the two closures
InitNewDevice ==
    /\ Running /\ initPc = "new_device"
    /\ device' = TRUE
    /\ initPc' = InitNextStep(initPc)
    /\ UNCHANGED <<queues, segments, regions, cfgCallback, queueCallback,
                   finishInit, initResult, initFault, panicked, notInit>>

\* line 111-114: transport.register_cfg_callback(..).unwrap()
InitRegisterCfgCallback ==
    /\ Running /\ initPc = "register_cfg_callback"
    /\ \E ok \in BOOLEAN :
         /\ Unwrap(ok, initPc, "unwrap: register_cfg_callback")
         /\ cfgCallback' = ok
         /\ initPc' = IF ok THEN InitNextStep(initPc) ELSE initPc
    /\ UNCHANGED <<queues, segments, regions, device, queueCallback,
                   finishInit, initResult, notInit>>

\* line 115-117: transport.register_queue_callback(0, ..).unwrap()
InitRegisterQueueCallback ==
    /\ Running /\ initPc = "register_queue_callback"
    /\ \E ok \in BOOLEAN :
         /\ Unwrap(ok, initPc, "unwrap: register_queue_callback")
         /\ queueCallback' = ok
         /\ initPc' = IF ok THEN InitNextStep(initPc) ELSE initPc
    /\ UNCHANGED <<queues, segments, regions, device, cfgCallback,
                   finishInit, initResult, notInit>>

\* line 118: transport.finish_init()
InitFinishInit ==
    /\ Running /\ initPc = "finish_init"
    /\ finishInit' = finishInit + 1
    /\ initPc' = InitNextStep(initPc)
    /\ UNCHANGED <<queues, segments, regions, device, cfgCallback,
                   queueCallback, initResult, initFault, panicked, notInit>>

\* line 120: Ok(())
InitReturn ==
    /\ Running /\ initPc = "return_ok"
    /\ initResult' = "Ok"
    /\ initPc' = InitNextStep(initPc)
    /\ UNCHANGED <<queues, segments, regions, device, cfgCallback,
                   queueCallback, finishInit, initFault, panicked, notInit>>

InitStep ==
    \/ InitReadConfig
    \/ \E q \in Queues : InitNewQueue(q)
    \/ \E r \in Regions : InitAllocSegment(r)
    \/ \E r \in Regions : InitMapRegion(r)
    \/ InitNewDevice
    \/ InitRegisterCfgCallback
    \/ InitRegisterQueueCallback
    \/ InitFinishInit
    \/ InitReturn

(***************************************************************************)
(* The transaction of request_display_info (line 133-173),                 *)
(* request_cursor_update (line 177-218) and request_cursor_move            *)
(* (line 222-264).  The three run the same statements on the queue,        *)
(* regions, request, placeholder and expected opcode of the operation.     *)
(***************************************************************************)
\* TxnOrder with the lock taken by a plain lock(): the interrupts are
\* disabled only after the lock is held.
\* The response is read before the completion is awaited.
TxnOrderReadEarly ==
    << "write_req", "write_resp", "disable_irq", "lock", "add_dma_buf",
       "should_notify", "notify", "read_resp", "can_pop", "pop_used",
       "compare", "unlock", "enable_irq", "done" >>

\* The lock is released before the completion is awaited.
TxnOrderUnlockEarly ==
    << "write_req", "write_resp", "disable_irq", "lock", "add_dma_buf",
       "should_notify", "notify", "unlock", "can_pop", "pop_used",
       "read_resp", "compare", "enable_irq", "done" >>

TxnOrderLockFirst ==
    << "write_req", "write_resp", "lock", "disable_irq", "add_dma_buf",
       "should_notify", "notify", "can_pop", "pop_used", "read_resp",
       "compare", "unlock", "enable_irq", "done" >>

\* The statements of an operation in program order.  "notify" is skipped
\* when should_notify() is false; "can_pop" repeats until it is true.
TxnOrder ==
    << "write_req", "write_resp", "disable_irq", "lock", "add_dma_buf",
       "should_notify", "notify", "can_pop", "pop_used", "read_resp",
       "compare", "unlock", "enable_irq", "done" >>

TxnIndex(step) == CHOOSE i \in 1..Len(TxnOrder) : TxnOrder[i] = step
NextPc(step) == TxnOrder[TxnIndex(step) + 1]

\* Thread t runs its next statement: its processor is not in a handler.
AtStep(t, step) == Running /\ pc[t] = step /\ handler[t] = NoValue

\* The statement of thread t ended: ok, or its callee returned Err and the
\* .unwrap() / .expect() on it panics with msg.
Finish(t, ok, callee, msg) ==
    IF ok
    THEN /\ pc' = [pc EXCEPT ![t] = NextPc(pc[t])]
         /\ UNCHANGED <<qerr, panicked>>
    ELSE /\ qerr' = [qerr EXCEPT ![t] = callee]
         /\ panicked' = msg
         /\ UNCHANGED pc

\* A caller enters one of the operations; the request is built from the
\* arguments (line 136-139, 185, 231).
Call(t, o, m) ==
    /\ Running /\ initResult = "Ok" /\ device
    /\ pc[t] = "idle" /\ handler[t] = NoValue
    /\ m \in RequestsOf(o)
    /\ op' = [op EXCEPT ![t] = o]
    /\ req' = [req EXCEPT ![t] = m]
    /\ pc' = [pc EXCEPT ![t] = TxnOrder[1]]
    /\ UNCHANGED <<pureVars, initVars, panicked, dmaVars, queueVars, resp, result, qerr,
                   popped, cpuVars, devVars>>

\* line 135-142, 184-188, 230-234:
\* req_slice.write_val(0, &req).unwrap(); req_slice.sync().unwrap()
WriteRequest(t) ==
    /\ AtStep(t, "write_req")
    /\ \E ok \in BOOLEAN :
         /\ Finish(t, ok, "write_val", "unwrap: write_val")
         /\ reqRegion' = IF ok
                         THEN [reqRegion EXCEPT ![QueueOf(op[t])] = req[t]]
                         ELSE reqRegion
    /\ UNCHANGED <<pureVars, initVars, respRegion, queueVars, op, req, resp, result,
                   popped, cpuVars, devVars>>

\* line 146-148, 192-194, 238-240:
\* resp_slice.write_val(0, &placeholder).unwrap()
WritePlaceholder(t) ==
    /\ AtStep(t, "write_resp")
    /\ \E ok \in BOOLEAN :
         /\ Finish(t, ok, "write_val", "unwrap: write_val")
         /\ respRegion' =
              IF ok
              THEN [respRegion EXCEPT ![QueueOf(op[t])] = Placeholder(op[t])]
              ELSE respRegion
    /\ UNCHANGED <<pureVars, initVars, reqRegion, queueVars, op, req, resp, result,
                   popped, cpuVars, devVars>>

\* line 151, 197, 243: queue.disable_irq().lock() first disables the local
\* interrupts ...
DisableIrq(t) ==
    /\ AtStep(t, "disable_irq")
    /\ irqOff' = [irqOff EXCEPT ![t] = TRUE]
    /\ pc' = [pc EXCEPT ![t] = NextPc(pc[t])]
    /\ UNCHANGED <<pureVars, initVars, panicked, dmaVars, queueVars, op, req, resp,
                   result, qerr, popped, handler, devVars>>

\* LockFree with no mutual exclusion: the queue is entered without waiting.
LockFreeAlways(q) == TRUE

\* The lock of queue q can be taken.
LockFree(q) == lock[q] = NoThread

\* ... and then spins until the lock is free and takes it.
Lock(t) ==
    /\ AtStep(t, "lock")
    /\ LockFree(QueueOf(op[t]))
    /\ lock' = [lock EXCEPT ![QueueOf(op[t])] = t]
    /\ pc' = [pc EXCEPT ![t] = NextPc(pc[t])]
    /\ UNCHANGED <<pureVars, initVars, panicked, dmaVars, avail, used, op, req,
                   resp, result, qerr, popped, cpuVars, devVars>>

\* A submission that enqueues the transfer a second time.
add_dma_buf_twice(q, t) == Append(Append(avail[q], t), t)

\* queue.add_dma_buf: one transfer of thread t is made available on queue q.
add_dma_buf(q, t) == Append(avail[q], t)

\* line 152-154, 198-200, 244-246:
\* queue.add_dma_buf(&[&req_slice], &[&resp_slice]).expect(..)
AddDmaBuf(t) ==
    /\ AtStep(t, "add_dma_buf")
    /\ \E ok \in BOOLEAN :
         /\ Finish(t, ok, "add_dma_buf", "add queue failed")
         /\ avail' = IF ok
                     THEN [avail EXCEPT ![QueueOf(op[t])] =
                                           add_dma_buf(QueueOf(op[t]), t)]
                     ELSE avail
    /\ UNCHANGED <<pureVars, initVars, dmaVars, lock, used, op, req, resp,
                   result, popped, cpuVars, devVars>>

\* line 156, 202, 248: if queue.should_notify()
ShouldNotify(t) ==
    /\ AtStep(t, "should_notify")
    /\ \E should_notify \in BOOLEAN :
         pc' = [pc EXCEPT ![t] = IF should_notify THEN NextPc(pc[t])
                                 ELSE NextPc(NextPc(pc[t]))]
    /\ UNCHANGED <<pureVars, initVars, panicked, dmaVars, queueVars, op, req, resp,
                   result, qerr, popped, cpuVars, devVars>>

\* line 157, 203, 249: queue.notify(): the kick reaches the device, which
\* may take an available transfer at any time, kicked or polling
Notify(t) ==
    /\ AtStep(t, "notify")
    /\ pc' = [pc EXCEPT ![t] = NextPc(pc[t])]
    /\ UNCHANGED <<pureVars, initVars, panicked, dmaVars, queueVars, op, req, resp,
                   result, qerr, popped, cpuVars, devVars>>

\* A poll that gives up waiting.
can_pop_gives_up(q) == TRUE

\* queue.can_pop(): queue q holds a completion.
can_pop(q) == used[q] # <<>>

\* line 160-162, 205-207, 251-253: while !queue.can_pop() { spin_loop() }
CanPop(t) ==
    /\ AtStep(t, "can_pop")
    /\ can_pop(QueueOf(op[t]))
    /\ pc' = [pc EXCEPT ![t] = NextPc(pc[t])]
    /\ UNCHANGED <<pureVars, initVars, panicked, dmaVars, queueVars, op, req, resp,
                   result, qerr, popped, cpuVars, devVars>>

\* line 163, 208, 254: queue.pop_used().expect(..)
PopUsed(t) ==
    /\ AtStep(t, "pop_used")
    /\ \E ok \in BOOLEAN :
         /\ Finish(t, ok /\ used[QueueOf(op[t])] # <<>>, "pop_used",
                   "pop used failed")
         /\ IF ok /\ used[QueueOf(op[t])] # <<>>
            THEN /\ used' = [used EXCEPT ![QueueOf(op[t])] = Tail(@)]
                 /\ popped' = [popped EXCEPT
                                 ![t] = Head(used[QueueOf(op[t])])]
            ELSE UNCHANGED <<used, popped>>
    /\ UNCHANGED <<pureVars, initVars, dmaVars, lock, avail, op, req, resp,
                   result, cpuVars, devVars>>

\* line 165-166, 210-211, 256-257:
\* resp_slice.sync().unwrap(); resp_slice.read_val(0).unwrap()
ReadResponse(t) ==
    /\ AtStep(t, "read_resp")
    /\ \E ok \in BOOLEAN :
         /\ Finish(t, ok, "read_val", "unwrap: read_val")
         /\ resp' = IF ok THEN [resp EXCEPT ![t] = respRegion[QueueOf(op[t])]]
                    ELSE resp
    /\ UNCHANGED <<pureVars, initVars, dmaVars, queueVars, op, req, result,
                   popped, cpuVars, devVars>>

\* Validate with the response returned whatever its opcode.
ValidateAnyOpcode(o, r) == "Ok"

\* The value of the if of line 168-172, 213-217, 259-263.
Validate(o, r) ==
    IF r.hdr.ctrl_type = ExpectedOpcode(o) THEN "Ok" ELSE "Err"

Compare(t) ==
    /\ AtStep(t, "compare")
    /\ result' = [result EXCEPT ![t] = Validate(op[t], resp[t])]
    /\ pc' = [pc EXCEPT ![t] = NextPc(pc[t])]
    /\ UNCHANGED <<pureVars, initVars, panicked, dmaVars, queueVars, op, req, resp,
                   qerr, popped, cpuVars, devVars>>

\* line 173, 218, 264: the guard goes out of scope: the lock is released ...
Unlock(t) ==
    /\ AtStep(t, "unlock")
    /\ lock' = [lock EXCEPT ![QueueOf(op[t])] = NoThread]
    /\ pc' = [pc EXCEPT ![t] = NextPc(pc[t])]
    /\ UNCHANGED <<pureVars, initVars, panicked, dmaVars, avail, used, op, req,
                   resp, result, qerr, popped, cpuVars, devVars>>

\* ... and then the local interrupts are enabled again; the operation returns.
EnableIrq(t) ==
    /\ AtStep(t, "enable_irq")
    /\ irqOff' = [irqOff EXCEPT ![t] = FALSE]
    /\ pc' = [pc EXCEPT ![t] = NextPc(pc[t])]
    /\ UNCHANGED <<pureVars, initVars, panicked, dmaVars, queueVars, op, req, resp,
                   result, qerr, popped, handler, devVars>>

\* The caller has taken the result; the thread may call again.
Return(t) ==
    /\ AtStep(t, "done")
    /\ pc' = [pc EXCEPT ![t] = "idle"]
    /\ op' = [op EXCEPT ![t] = NoValue]
    /\ req' = [req EXCEPT ![t] = NoMsg]
    /\ resp' = [resp EXCEPT ![t] = NoMsg]
    /\ result' = [result EXCEPT ![t] = NoValue]
    /\ popped' = [popped EXCEPT ![t] = NoValue]
    /\ devSaw' = [devSaw EXCEPT ![t] = <<>>]
    /\ devAnswer' = [devAnswer EXCEPT ![t] = NoMsg]
    /\ UNCHANGED <<pureVars, initVars, panicked, dmaVars, queueVars, qerr, cpuVars>>

(***************************************************************************)
(* The device: it takes the oldest available transfer of a queue, reads    *)
(* the request buffer, answers (or not) into the response buffer and       *)
(* marks the transfer used.  The buffers are the slices submitted:         *)
(* REQ_SIZE bytes of the request region, RESP_SIZE bytes of the response   *)
(* region.                                                                 *)
(***************************************************************************)
DeviceComplete(q) ==
    /\ Running /\ avail[q] # <<>>
    /\ LET t == Head(avail[q]) IN
         /\ devSaw' = [devSaw EXCEPT ![t] = DeviceReads(reqRegion[q], REQ_SIZE)]
         /\ \E r \in DeviceResponses \cup {NoWrite} :
              /\ devAnswer' = [devAnswer EXCEPT ![t] = r]
              /\ respRegion' =
                   IF r = NoWrite THEN respRegion
                   ELSE [respRegion EXCEPT ![q] = DeviceWrites(@, r, RESP_SIZE)]
         /\ avail' = [avail EXCEPT ![q] = Tail(@)]
         /\ used' = [used EXCEPT ![q] = Append(@, t)]
    /\ UNCHANGED <<pureVars, initVars, panicked, reqRegion, lock, threadVars, cpuVars>>

(***************************************************************************)
(* Interrupts: the transport calls the registered callbacks on a           *)
(* processor whose local interrupts are enabled.                           *)
(***************************************************************************)
IrqEnter(t, kind) ==
    /\ Running /\ handler[t] = NoValue /\ ~irqOff[t]
    /\ IF kind = "handle_irq" THEN queueCallback ELSE cfgCallback
    /\ handler' = [handler EXCEPT ![t] = kind]
    /\ UNCHANGED <<pureVars, initVars, panicked, dmaVars, queueVars, threadVars, irqOff,
                   devVars>>

\* A queue handler that dequeues the completion itself.
HandleIrqPops(t) ==
    /\ Running /\ handler[t] = "handle_irq"
    /\ handler' = [handler EXCEPT ![t] = NoValue]
    /\ used' = [q \in Queues |-> IF used[q] = <<>> THEN <<>> ELSE Tail(used[q])]
    /\ UNCHANGED <<pureVars, initVars, panicked, dmaVars, lock, avail,
                   threadVars, irqOff, devVars>>

\* line 123-126: handle_irq only logs
HandleIrq(t) ==
    /\ Running /\ handler[t] = "handle_irq"
    /\ handler' = [handler EXCEPT ![t] = NoValue]
    /\ UNCHANGED <<pureVars, initVars, panicked, dmaVars, queueVars, threadVars, irqOff, devVars>>

\* line 128-131: handle_config_change only logs
HandleConfigChange(t) ==
    /\ Running /\ handler[t] = "handle_config_change"
    /\ handler' = [handler EXCEPT ![t] = NoValue]
    /\ UNCHANGED <<pureVars, initVars, panicked, dmaVars, queueVars, threadVars, irqOff, devVars>>

Handlers == {"handle_irq", "handle_config_change"}

Next ==
    \/ InitStep
    \/ \E t \in Threads, o \in Ops : \E m \in RequestsOf(o) : Call(t, o, m)
    \/ \E t \in Threads : WriteRequest(t)
    \/ \E t \in Threads : WritePlaceholder(t)
    \/ \E t \in Threads : DisableIrq(t)
    \/ \E t \in Threads : Lock(t)
    \/ \E t \in Threads : AddDmaBuf(t)
    \/ \E t \in Threads : ShouldNotify(t)
    \/ \E t \in Threads : Notify(t)
    \/ \E t \in Threads : CanPop(t)
    \/ \E t \in Threads : PopUsed(t)
    \/ \E t \in Threads : ReadResponse(t)
    \/ \E t \in Threads : Compare(t)
    \/ \E t \in Threads : Unlock(t)
    \/ \E t \in Threads : EnableIrq(t)
    \/ \E t \in Threads : Return(t)
    \/ \E q \in Queues : DeviceComplete(q)
    \/ \E t \in Threads, k \in Handlers : IrqEnter(t, k)
    \/ \E t \in Threads : HandleIrq(t)
    \/ \E t \in Threads : HandleConfigChange(t)

Spec == Init /\ [][Next]_vars

(***************************************************************************)
(* The functions of no state, each applied once to arguments drawn from    *)
(* the sample sets: negotiate_features and the two constructors of         *)
(* VirtioGPUUpdateCursor.                                                  *)
(***************************************************************************)
PureCalls ==
    {[fn |-> "negotiate_features", features |-> f] : f \in OfferedFeatures}
    \cup {[fn |-> "update_cursor", pos |-> p, resource_id |-> r,
           padding |-> d] :
            p \in CursorPosSamples, r \in U32Samples, d \in U32Samples}
    \cup {[fn |-> "move_cursor", hot_x |-> x, hot_y |-> y, padding |-> d] :
            x \in U32Samples, y \in U32Samples, d \in U32Samples}

InitPure ==
    /\ InitDevice
    /\ pureCall \in PureCalls
    /\ pureRet = NoMsg

deviceVars == <<initVars, panicked, dmaVars, queueVars, threadVars, cpuVars,
                devVars>>

NegotiateFeatures ==
    /\ pureRet = NoMsg /\ pureCall.fn = "negotiate_features"
    /\ pureRet' = [value |-> negotiate_features(pureCall.features)]
    /\ UNCHANGED <<pureCall, deviceVars>>

UpdateCursor ==
    /\ pureRet = NoMsg /\ pureCall.fn = "update_cursor"
    /\ pureRet' = [value |-> update_cursor(pureCall.pos, pureCall.resource_id,
                                           pureCall.padding)]
    /\ UNCHANGED <<pureCall, deviceVars>>

MoveCursor ==
    /\ pureRet = NoMsg /\ pureCall.fn = "move_cursor"
    /\ pureRet' = [value |-> move_cursor(pureCall.hot_x, pureCall.hot_y,
                                         pureCall.padding)]
    /\ UNCHANGED <<pureCall, deviceVars>>

NextPure == NegotiateFeatures \/ UpdateCursor \/ MoveCursor

SpecPure == InitPure /\ [][NextPure]_vars

(***************************************************************************)
(* Properties.                                                             *)
(***************************************************************************)
CursorOps == {"cursor_update", "cursor_move"}
\* The statements between taking the lock and dequeuing the completion.
SubmitToPop == {"add_dma_buf", "should_notify", "notify", "can_pop",
                "pop_used"}
\* Transfers of queue q submitted and not yet popped.
Outstanding(q) == Len(avail[q]) + Len(used[q])

\* C1: an operation returns Ok exactly when the opcode of the header it
\* read back from the response region equals its success opcode
\* (OK_DISPLAY_INFO for display info, OK_NODATA for the cursor operations),
\* and Err otherwise, whatever else the response holds.
C1_OkIffExpectedOpcode ==
    \A t \in Threads :
        result[t] # NoValue =>
            /\ op[t] = "display_info" =>
                 (result[t] = "Ok" <=>
                    resp[t].hdr.ctrl_type = VIRTIO_GPU_RESP_OK_DISPLAY_INFO)
            /\ op[t] \in CursorOps =>
                 (result[t] = "Ok" <=>
                    resp[t].hdr.ctrl_type = VIRTIO_GPU_RESP_OK_NODATA)
            /\ result[t] \in {"Ok", "Err"}

\* One caller was refused for a mismatched opcode, another got Ok.
C1_Witness ==
    \E t, u \in Threads :
        /\ pc[t] = "done" /\ result[t] = "Err"
        /\ resp[t].hdr.ctrl_type # VIRTIO_GPU_RESP_OK_NODATA
        /\ op[t] \in CursorOps
        /\ pc[u] = "done" /\ result[u] = "Ok"

\* C2: if the device marks a transfer complete without writing to the
\* response region, the operation that submitted it does not return Ok.
C2_UnwrittenResponseNotOk ==
    \A t \in Threads :
        (pc[t] = "done" /\ devAnswer[t] = NoWrite) => result[t] # "Ok"

\* C3: the transactions of one queue are serialized: at most one thread
\* is between submit and pop on a queue, it holds the queue's lock, and
\* the queue has at most one transfer submitted and not yet popped.
C3_Serialized ==
    \A q \in Queues :
        /\ Outstanding(q) <= 1
        /\ \A t, u \in Threads :
             (/\ pc[t] \in SubmitToPop /\ QueueOf(op[t]) = q
              /\ pc[u] \in SubmitToPop /\ QueueOf(op[u]) = q) => t = u
        /\ \A t \in Threads :
             (pc[t] \in SubmitToPop /\ QueueOf(op[t]) = q) => lock[q] = t

\* A caller spins on its submitted transfer while another caller of the
\* same queue waits for the lock.
C3_Witness ==
    \E t, u \in Threads :
        /\ t # u /\ op[t] \in CursorOps /\ op[u] \in CursorOps
        /\ pc[t] = "can_pop" /\ Outstanding("cursor") = 1
        /\ pc[u] = "lock"

\* C4: the request the device reads for a transfer is the request written
\* by the caller that submitted the transfer.
C4_DeviceReadsSubmittersRequest ==
    \A t \in Threads :
        devSaw[t] # <<>> => devSaw[t] = DeviceReads(req[t], REQ_SIZE)

\* C5: a display-info query and a cursor operation never block each
\* other: a caller waiting for a queue lock is only ever kept waiting by a
\* caller of the same kind of operation.
C5_QueuesIndependent ==
    \A t, u \in Threads :
        (/\ pc[t] = "lock" /\ u # t
         /\ lock[QueueOf(op[t])] = u) =>
            ((op[t] = "display_info") <=> (op[u] = "display_info"))

\* A display-info query has run through its transaction and holds the
\* control lock while a cursor operation spins on an uncompleted transfer.
C5_Witness ==
    \E t, u \in Threads :
        /\ op[t] = "display_info" /\ pc[t] = "unlock"
        /\ lock["control"] = t
        /\ op[u] \in CursorOps /\ pc[u] = "can_pop"
        /\ lock["cursor"] = u
        /\ used["cursor"] = <<>> /\ avail["cursor"] # <<>>

\* C6: when add_dma_buf or pop_used reports an error, the operation
\* returns an explicit failure to its caller.
C6_QueueErrorsReturned ==
    \A t \in Threads :
        qerr[t] \in {"add_dma_buf", "pop_used"} =>
            (result[t] = "Err" /\ panicked = NoValue)

\* C7: a queue lock is only held with the interrupts of the holder's
\* processor disabled, so no handler runs on a processor holding a lock.
C7_LockHeldWithIrqOff ==
    \A q \in Queues :
        lock[q] # NoThread =>
            (irqOff[lock[q]] /\ handler[lock[q]] = NoValue)

\* A lock is held while an interrupt is handled on another processor.
C7_Witness ==
    \E q \in Queues, u \in Threads :
        /\ lock[q] # NoThread /\ lock[q] # u
        /\ handler[u] # NoValue

\* C8: a failure of queue construction, page allocation or DMA mapping
\* makes init return an error, with no callback registered and finish_init
\* not signalled.
C8_InitFailureReturnsErr ==
    (initFault # NoValue
       /\ initFault \notin {"register_cfg_callback",
                            "register_queue_callback"}) =>
        (/\ initResult = "Err" /\ panicked = NoValue
         /\ ~cfgCallback /\ ~queueCallback /\ finishInit = 0)

\* C9: both queues and the four regions exist before a callback is
\* registered; both callbacks are registered before finish_init; finish_init
\* is signalled once, as the last step before init returns Ok.
C9_InitOrder ==
    /\ (cfgCallback \/ queueCallback) =>
         (queues = Queues /\ regions = Regions /\ device)
    /\ finishInit > 0 => (cfgCallback /\ queueCallback)
    /\ finishInit <= 1
    /\ finishInit = 1 => initPc \in {"return_ok", "returned"}
    /\ initResult = "Ok" => finishInit = 1

\* init has returned Ok.
C9_Witness ==
    /\ initResult = "Ok" /\ finishInit = 1
    /\ cfgCallback /\ queueCallback
    /\ queues = Queues /\ regions = Regions

\* C10: the request slice is at least as long as the request written into
\* it and the response slice at least as long as the response type written
\* into and read from it.
C10_SlicesLargeEnough ==
    \A t \in Threads :
        pc[t] # "idle" =>
            /\ REQ_SIZE >= RequestSize(op[t])
            /\ RESP_SIZE >= ResponseSize(op[t])

\* C11: when the device completes the transfer of request_display_info
\* with an OK_DISPLAY_INFO response carrying a geometry, the operation
\* returns Ok and the response returned carries that geometry.
C11_DisplayInfoEndToEnd ==
    \A t \in Threads :
        (/\ pc[t] = "done" /\ op[t] = "display_info"
         /\ "payload" \in DOMAIN devAnswer[t]
         /\ devAnswer[t].hdr.ctrl_type = VIRTIO_GPU_RESP_OK_DISPLAY_INFO) =>
            (result[t] = "Ok" /\ resp[t].payload = devAnswer[t].payload)

\* C12: the output of negotiate_features has no bit that its input lacks,
\* and has the VIRGL and CONTEXT_INIT bits cleared.
C12_NegotiateSubsetAndCleared ==
    (pureRet # NoMsg /\ pureCall.fn = "negotiate_features") =>
        /\ BitsOf(pureRet.value) \subseteq BitsOf(pureCall.features)
        /\ VIRTIO_GPU_F_VIRGL \notin BitsOf(pureRet.value)
        /\ VIRTIO_GPU_F_CONTEXT_INIT \notin BitsOf(pureRet.value)

\* negotiate_features has answered an offer with every enumerated bit set.
C12_Witness ==
    /\ pureRet # NoMsg /\ pureCall.fn = "negotiate_features"
    /\ pureCall.features = Pow2(FeatureBits) - 1
    /\ BitsOf(pureRet.value) # {}

\* C13: update_cursor yields opcode UPDATE_CURSOR, a zero hotspot and the
\* given pos, resource_id and padding; move_cursor yields opcode
\* MOVE_CURSOR, an all-zero position, resource_id 0 and the given hotspot.
C13_CursorConstructors ==
    /\ (pureRet # NoMsg /\ pureCall.fn = "update_cursor") =>
         /\ pureRet.value.hdr.ctrl_type = VIRTIO_GPU_CMD_UPDATE_CURSOR
         /\ pureRet.value.hot_x = 0 /\ pureRet.value.hot_y = 0
         /\ pureRet.value.pos = pureCall.pos
         /\ pureRet.value.resource_id = pureCall.resource_id
         /\ pureRet.value.padding = pureCall.padding
    /\ (pureRet # NoMsg /\ pureCall.fn = "move_cursor") =>
         /\ pureRet.value.hdr.ctrl_type = VIRTIO_GPU_CMD_MOVE_CURSOR
         /\ pureRet.value.pos.scanout_id = 0 /\ pureRet.value.pos.x = 0
         /\ pureRet.value.pos.y = 0 /\ pureRet.value.pos.padding = 0
         /\ pureRet.value.resource_id = 0
         /\ pureRet.value.hot_x = pureCall.hot_x
         /\ pureRet.value.hot_y = pureCall.hot_y

\* update_cursor was applied to a resource handle that differs from the
\* padding, at a position with non-zero fields.
C13_Witness ==
    /\ pureRet # NoMsg /\ pureCall.fn = "update_cursor"
    /\ pureCall.resource_id # pureCall.padding
    /\ pureCall.pos.x # 0 /\ pureCall.pos.padding # 0

\* The statements at which a caller has submitted and not yet seen the
\* completion, and those before it holds the lock.
Spinning == {"should_notify", "notify", "can_pop"}
PreLock == {"write_req", "write_resp", "disable_irq", "lock"}

\* C14: in a step that leaves the transfer of a caller uncompleted (still
\* available to the device), that caller stays in its polling loop and
\* keeps the queue lock, and no other caller of the same queue gets past
\* the lock acquisition.
C14_NoTimeout ==
    [][\A t \in Threads :
         (/\ pc[t] \in Spinning
          /\ avail[QueueOf(op[t])] = <<t>>
          /\ avail'[QueueOf(op[t])] = <<t>>) =>
            /\ pc'[t] \in Spinning
            /\ lock'[QueueOf(op[t])] = t
            /\ \A u \in Threads \ {t} :
                 (pc[u] \in PreLock /\ QueueOf(op[u]) = QueueOf(op[t])) =>
                     pc'[u] \in PreLock]_vars

\* A caller polls for a completion the device has not produced while the
\* other caller waits for the lock of the same queue.
C14_Witness ==
    \E t \in Threads : \E u \in Threads \ {t} :
        /\ pc[t] = "can_pop" /\ op[t] = "display_info"
        /\ avail["control"] = <<t>> /\ lock["control"] = t
        /\ pc[u] = "lock" /\ op[u] = "display_info"

\* The order of the statements of one operation.
ProgramOrder ==
    { <<"idle", "write_req">>, <<"write_req", "write_resp">>,
      <<"write_resp", "disable_irq">>, <<"disable_irq", "lock">>,
      <<"lock", "add_dma_buf">>, <<"add_dma_buf", "should_notify">>,
      <<"should_notify", "notify">>, <<"should_notify", "can_pop">>,
      <<"notify", "can_pop">>, <<"can_pop", "pop_used">>,
      <<"pop_used", "read_resp">>, <<"read_resp", "compare">>,
      <<"compare", "unlock">>, <<"unlock", "enable_irq">>,
      <<"enable_irq", "done">>, <<"done", "idle">> }

\* C15: a caller moves through the statements in the one fixed order; the
\* transfer is submitted at the submission statement only, after the
\* request was written; the completion is dequeued only after can_pop()
\* was true; the response is read only after the completion was dequeued;
\* the result is set by the comparison only, after the response was read.
C15_StepOrder ==
    [][\A t \in Threads :
         /\ pc'[t] # pc[t] => <<pc[t], pc'[t]>> \in ProgramOrder
         /\ pc'[t] # "idle" =>
              /\ (\E q \in Queues :
                     /\ Len(avail'[q]) > Len(avail[q])
                     /\ avail'[q][Len(avail'[q])] = t) =>
                    (pc[t] = "add_dma_buf" /\ req[t] # NoMsg)
              /\ (pc[t] = "can_pop" /\ pc'[t] = "pop_used") =>
                    used[QueueOf(op[t])] # <<>>
              /\ popped'[t] # popped[t] => pc[t] = "pop_used"
              /\ resp'[t] # resp[t] =>
                    (pc[t] = "read_resp" /\ popped[t] # NoValue)
              /\ result'[t] # result[t] =>
                    (pc[t] = "compare" /\ resp[t] # NoMsg)]_vars

\* A display query ran all its statements and ended in the protocol error.
C15_Witness ==
    \E t \in Threads :
        /\ pc[t] = "done" /\ op[t] = "display_info"
        /\ result[t] = "Err" /\ popped[t] = t /\ resp[t] # NoMsg

\* C16: a call in progress is never in a state from which it cannot
\* return: the kernel has not panicked under it.
C16_CallsCanReturn ==
    \A t \in Threads : pc[t] \notin {"idle", "done"} => Running

\* The number of transfers of thread t that queue q holds, available or
\* used.
TransfersOf(t, q) ==
    Cardinality({i \in 1..Len(avail[q]) : avail[q][i] = t})
      + Cardinality({i \in 1..Len(used[q]) : used[q][i] = t})

\* C17: a call has exactly one transfer in its queue from the submission
\* to the dequeue and none before or after; after a protocol error it only
\* releases the lock and returns; after a failed submission or dequeue
\* nothing runs.
C17_NoRetry ==
    \A t \in Threads :
        /\ \A q \in Queues :
             TransfersOf(t, q) =
                IF pc[t] \in {"should_notify", "notify", "can_pop", "pop_used"}
                   /\ QueueOf(op[t]) = q
                THEN 1 ELSE 0
        /\ result[t] = "Err" => pc[t] \in {"unlock", "enable_irq", "done"}
        /\ qerr[t] # NoValue => ~Running

\* A cursor operation has returned the protocol error and its queue is
\* empty.
C17_Witness ==
    \E t \in Threads :
        /\ pc[t] = "done" /\ op[t] \in CursorOps /\ result[t] = "Err"
        /\ Outstanding("cursor") = 0

\* C18: a step in which an interrupt handler returns leaves the queues,
\* the locks, the DMA regions, the callers and the device unchanged; a
\* caller leaves its polling loop only by a step of its own, not by a
\* handler.
C18_HandlersChangeNothing ==
    [][/\ (\E t \in Threads :
              handler[t] \in Handlers /\ handler'[t] = NoValue) =>
            UNCHANGED <<initVars, panicked, dmaVars, queueVars, threadVars,
                        irqOff, devVars>>
       /\ \A t \in Threads :
            (pc[t] = "can_pop" /\ pc'[t] # pc[t]) => handler' = handler]_vars

\* The queue handler runs on one processor while the completion of the
\* other caller's transfer is in the queue.
C18_Witness ==
    \E t \in Threads : \E u \in Threads \ {t} :
        /\ handler[u] = "handle_irq"
        /\ pc[t] = "can_pop" /\ used[QueueOf(op[t])] = <<t>>

\* C19: a cursor caller that returns Ok read the response the device left
\* in the response buffer for its transfer: that response carries
\* OK_NODATA.
C19_OkOnlyForOkAnswer ==
    \A t \in Threads :
        (/\ pc[t] = "done" /\ op[t] \in CursorOps /\ result[t] = "Ok"
         /\ "hdr" \in DOMAIN devAnswer[t]) =>
            DeviceWrites(Placeholder(op[t]), devAnswer[t],
                         RESP_SIZE).hdr.ctrl_type
               = VIRTIO_GPU_RESP_OK_NODATA

\* C20: a caller that has returned holds no lock, has its interrupts
\* enabled, popped the completion of its own transfer and has no transfer
\* left in a queue; a queue whose lock is free holds no transfer.
C20_ReturnedLeavesQueueReusable ==
    /\ \A t \in Threads :
         pc[t] = "done" =>
            /\ lock[QueueOf(op[t])] # t
            /\ ~irqOff[t]
            /\ popped[t] = t
            /\ \A q \in Queues : TransfersOf(t, q) = 0
    /\ \A q \in Queues : lock[q] = NoThread => Outstanding(q) = 0

\* A cursor operation has returned Ok, the lock of its queue is free and
\* the other caller is about to take it.
C20_Witness ==
    \E t \in Threads : \E u \in Threads \ {t} :
        /\ pc[t] = "done" /\ op[t] \in CursorOps /\ result[t] = "Ok"
        /\ lock["cursor"] = NoThread
        /\ pc[u] = "lock" /\ op[u] \in CursorOps

====
